---------------------------- MODULE Spec2Model ----------------------------
(***************************************************************************)
(* A model of fix_font_family_names.py: the command line entry point and   *)
(* fix_font_family_names(input_path, output_path, family_name_override).   *)
(*                                                                         *)
(* Text (Python str) is a sequence of code points, a byte string (Python   *)
(* bytes) a sequence of numbers 0..255.  A value that may be None is a     *)
(* record with a `some` field.  A naming record is a record with the       *)
(* fields nameID, platformID, platEncID, langID and string, the last one   *)
(* tagged with its Python type (bytes after loading, str after setName on  *)
(* a Unicode record).  The fontTools calls the script makes (isUnicode,    *)
(* toUnicode, getEncoding, setName, save) are modelled by what the library *)
(* does at the call.  A naming table holds at most one record per          *)
(* (nameID, platformID, platEncID, langID) identity.                       *)
(***************************************************************************)
EXTENDS Integers, Sequences, FiniteSets, TLC

VARIABLES
    pc,            \* position of the single thread of control
    argv,          \* sys.argv[1:]: <<>>, <<in>>, <<in, out>> or <<in, out, override>>
    inFile,        \* naming records of the font file at input_path
    names,         \* font['name'].names, the loaded table
    family_name,   \* the local family_name (None until resolved)
    raw,           \* the value the scan resolved, before the cleanup loop
    i,             \* index of the record a loop is at
    wi,            \* index of the weight token the cleanup loop is at
    ni,            \* index into [1, 16] of the update loop's nameID
    outFile,       \* naming records written to output_path (None before save)
    err,           \* the exception that left fix_font_family_names, "" if none
    stdout,        \* the line printed by the entry point (None before)
    exitCode       \* the process exit status (-1 while running)

vars == <<pc, argv, inFile, names, family_name, raw, i, wi, ni, outFile, err,
          stdout, exitCode>>

---------------------------------------------------------------------------
(* Bounds of the model *)

\* most naming records in the input font
MaxRecords == 3
\* most pieces concatenated into a name the cleanup loop is tried on
MaxPieces == 4

---------------------------------------------------------------------------
(* Optional values and results of a conversion that may raise *)

None == [some |-> FALSE]

Some(v) == [some |-> TRUE, v |-> v]

\* Python truth of a str-or-None value: None and '' are false
Truthy(x) == x.some /\ x.v # <<>>

Failed == [ok |-> FALSE]

Ok(v) == [ok |-> TRUE, v |-> v]

---------------------------------------------------------------------------
(* Python str operations used by the cleanup loop *)

\* str.isspace() of one code point
IsSpace(c) ==
    \/ c \in 9..13
    \/ c \in 28..32
    \/ c \in {133, 160, 5760, 8232, 8233, 8239, 8287, 12288}
    \/ c \in 8192..8202

\* old occurs in s starting at position p
OccursAt(old, s, p) ==
    /\ p >= 1
    /\ p + Len(old) - 1 <= Len(s)
    /\ \A k \in 1..Len(old) : s[p + k - 1] = old[k]

\* the `in` operator on two str values
Contains(sub, s) == \E p \in 1..(Len(s) + 1) : OccursAt(sub, s, p)

RECURSIVE ReplaceFrom(_, _, _)
\* str.replace(old, '') from position p on: a left-to-right scan that drops
\* each occurrence it meets and resumes after it
ReplaceFrom(s, old, p) ==
    IF p > Len(s) THEN <<>>
    ELSE IF OccursAt(old, s, p) THEN ReplaceFrom(s, old, p + Len(old))
    ELSE <<s[p]>> \o ReplaceFrom(s, old, p + 1)

RECURSIVE ReplaceFirstFrom(_, _, _)
ReplaceFirstFrom(s, old, p) ==
    IF p > Len(s) THEN <<>>
    ELSE IF OccursAt(old, s, p) THEN SubSeq(s, p + Len(old), Len(s))
    ELSE <<s[p]>> \o ReplaceFirstFrom(s, old, p + 1)

\* a replace that stops after the first occurrence
RemoveFirst(s, old) == ReplaceFirstFrom(s, old, 1)

\* s.replace(old, '')
Remove(s, old) == ReplaceFrom(s, old, 1)

\* s.strip()
Strip(s) ==
    LET keep == {p \in 1..Len(s) : ~IsSpace(s[p])}
    IN  IF keep = {} THEN <<>>
        ELSE SubSeq(s, CHOOSE p \in keep : \A q \in keep : p <= q,
                       CHOOSE p \in keep : \A q \in keep : q <= p)

\* the list of weight indicators of line 58, in its order:
\* Regular, Bold, Italic, Medium, Light, Black, SemiBold, ExtraBold,
\* ExtraLight, Thin
Weights ==
    << <<82, 101, 103, 117, 108, 97, 114>>,
       <<66, 111, 108, 100>>,
       <<73, 116, 97, 108, 105, 99>>,
       <<77, 101, 100, 105, 117, 109>>,
       <<76, 105, 103, 104, 116>>,
       <<66, 108, 97, 99, 107>>,
       <<83, 101, 109, 105, 66, 111, 108, 100>>,
       <<69, 120, 116, 114, 97, 66, 111, 108, 100>>,
       <<69, 120, 116, 114, 97, 76, 105, 103, 104, 116>>,
       <<84, 104, 105, 110>> >>

\* ' ' and '-'
Space == <<32>>

Hyphen == <<45>>

\* a body of the cleanup loop that trims before it removes instead of after
CleanOneTrimFirst(name, weight) ==
    IF Contains(weight, name)
    THEN Remove(Remove(Strip(name), Space \o weight), Hyphen \o weight)
    ELSE name

\* one iteration of the cleanup loop, lines 59-62
CleanOne(name, weight) ==
    IF Contains(weight, name)
    THEN Strip(Remove(Remove(name, Space \o weight), Hyphen \o weight))
    ELSE name

RECURSIVE CleanFrom(_, _)
\* the iterations of the cleanup loop from weight w on
CleanFrom(name, w) ==
    IF w > Len(Weights) THEN name
    ELSE CleanFrom(CleanOne(name, Weights[w]), w + 1)

\* the whole cleanup loop, lines 58-62
Clean(name) == CleanFrom(name, 1)

---------------------------------------------------------------------------
(* Text encodings: bytes.decode and str.encode with errors='strict' *)

\* byte p of b exists and is a UTF-8 continuation byte within lo..hi
ContIn(b, p, lo, hi) == p <= Len(b) /\ b[p] \in lo..hi

RECURSIVE Utf8From(_, _)
\* bytes.decode('utf-8') from position p on
Utf8From(b, p) ==
    IF p > Len(b) THEN Ok(<<>>)
    ELSE
      LET b0 == b[p]
          width == IF b0 < 128 THEN 1
                   ELSE IF b0 \in 194..223 THEN 2
                   ELSE IF b0 \in 224..239 THEN 3
                   ELSE IF b0 \in 240..244 THEN 4
                   ELSE 0
          lo2 == IF b0 = 224 THEN 160 ELSE IF b0 = 240 THEN 144 ELSE 128
          hi2 == IF b0 = 237 THEN 159 ELSE IF b0 = 244 THEN 143 ELSE 191
          wellFormed ==
              /\ width > 0
              /\ width >= 2 => ContIn(b, p + 1, lo2, hi2)
              /\ width >= 3 => ContIn(b, p + 2, 128, 191)
              /\ width >= 4 => ContIn(b, p + 3, 128, 191)
          cp == IF width = 1 THEN b0
                ELSE IF width = 2 THEN (b0 - 192) * 64 + (b[p + 1] - 128)
                ELSE IF width = 3
                  THEN (b0 - 224) * 4096 + (b[p + 1] - 128) * 64 + (b[p + 2] - 128)
                ELSE (b0 - 240) * 262144 + (b[p + 1] - 128) * 4096
                     + (b[p + 2] - 128) * 64 + (b[p + 3] - 128)
      IN  IF ~wellFormed THEN Failed
          ELSE LET rest == Utf8From(b, p + width)
               IN  IF rest.ok THEN Ok(<<cp>> \o rest.v) ELSE Failed

\* record.string.decode('utf-8')
Utf8Decode(b) == Utf8From(b, 1)

\* record.string.decode('latin-1'): byte n is code point n; it cannot fail
Latin1Decode(b) == Ok([k \in 1..Len(b) |-> b[k]])

RECURSIVE Utf16From(_, _)
\* bytes.decode('utf_16_be') from position p on
Utf16From(b, p) ==
    IF p > Len(b) THEN Ok(<<>>)
    ELSE IF p + 1 > Len(b) THEN Failed                  \* truncated data
    ELSE
      LET u == b[p] * 256 + b[p + 1]
      IN  IF u \in 55296..56319 THEN                        \* a high surrogate
            IF p + 3 > Len(b) THEN Failed
            ELSE LET u2 == b[p + 2] * 256 + b[p + 3]
                     rest == Utf16From(b, p + 4)
                 IN  IF u2 \notin 56320..57343 \/ ~rest.ok THEN Failed
                     ELSE Ok(<<65536 + (u - 55296) * 1024 + (u2 - 56320)>> \o rest.v)
          ELSE IF u \in 56320..57343 THEN Failed           \* a lone low surrogate
          ELSE LET rest == Utf16From(b, p + 2)
               IN  IF rest.ok THEN Ok(<<u>> \o rest.v) ELSE Failed

Utf16Decode(b) == Utf16From(b, 1)

RECURSIVE Utf16Units(_, _)
Utf16Units(s, p) ==
    IF p > Len(s) THEN <<>>
    ELSE LET c == s[p]
         IN  (IF c < 65536 THEN <<c \div 256, c % 256>>
              ELSE LET hi == 55296 + (c - 65536) \div 1024
                       lo == 56320 + ((c - 65536) % 1024)
                   IN  <<hi \div 256, hi % 256, lo \div 256, lo % 256>>)
             \o Utf16Units(s, p + 1)

\* str.encode('utf_16_be'): a surrogate code point cannot be encoded
Utf16Encode(s) ==
    IF \E p \in 1..Len(s) : s[p] \in 55296..57343 THEN Failed
    ELSE Ok(Utf16Units(s, 1))

\* str.encode('ascii')
AsciiEncode(s) ==
    IF \A p \in 1..Len(s) : s[p] < 128 THEN Ok(s) ELSE Failed

\* str.encode('latin1')
Latin1Encode(s) ==
    IF \A p \in 1..Len(s) : s[p] < 256 THEN Ok(s) ELSE Failed

\* The mac_roman charmap above ASCII, for the code points the inputs of this
\* model can produce: U+00C4, U+00E9 and U+00FC have a byte, U+008E and U+4E2D
\* have none.
MacRomanHigh == (196 :> 128) @@ (233 :> 142) @@ (252 :> 159)

\* str.encode('mac_roman')
MacRomanEncode(s) ==
    IF \A p \in 1..Len(s) : s[p] < 128 \/ s[p] \in DOMAIN MacRomanHigh
    THEN Ok([p \in 1..Len(s) |->
               IF s[p] < 128 THEN s[p] ELSE MacRomanHigh[s[p]]])
    ELSE Failed

\* str.encode(encoding)
Encode(s, encoding) ==
    CASE encoding = "utf_16_be" -> Utf16Encode(s)
      [] encoding = "mac_roman" -> MacRomanEncode(s)
      [] encoding = "latin1"    -> Latin1Encode(s)
      [] OTHER                  -> AsciiEncode(s)

---------------------------------------------------------------------------
(* Naming records and the fontTools calls on them *)

Bytes(b) == [kind |-> "bytes", v |-> b]

Str(t) == [kind |-> "str", v |-> t]

Rec(nameID, platformID, platEncID, langID, string) ==
    [nameID |-> nameID, platformID |-> platformID, platEncID |-> platEncID,
     langID |-> langID, string |-> string]

\* the identity of a record in the naming table
Ident(r) == <<r.nameID, r.platformID, r.platEncID, r.langID>>

\* record.isUnicode()
isUnicode(r) ==
    r.platformID = 0 \/ (r.platformID = 3 /\ r.platEncID \in {0, 1, 10})

\* record.getEncoding(), for the Unicode, Macintosh (Roman script, a language
\* using mac_roman), ISO and Windows Unicode platforms; 'ascii' when unknown
getEncoding(r) ==
    CASE r.platformID = 0 -> "utf_16_be"
      [] r.platformID = 1 /\ r.platEncID = 0 -> "mac_roman"
      [] r.platformID = 2 /\ r.platEncID = 1 -> "utf_16_be"
      [] r.platformID = 2 /\ r.platEncID = 2 -> "latin1"
      [] r.platformID = 3 /\ r.platEncID \in {0, 1, 10} -> "utf_16_be"
      [] OTHER -> "ascii"

\* printable ASCII, tab, line feed or carriage return
IsAsciiText(b) == b \in 32..126 \/ b \in {9, 10, 13}

\* record.toUnicode() of a record whose encoding is utf_16_be (every record
\* with isUnicode()): a strict decode after the repair of an odd number of
\* bytes, then the narrowing of text that still looks like UTF-16BE
toUnicode(r) ==
    LET b == r.string.v
        n == Len(b)
        repaired ==
            IF n % 2 = 0 THEN b
            ELSE IF b[n] = 0 THEN SubSeq(b, 1, n - 1)
            ELSE IF \A p \in 1..n :
                      IF p % 2 = 0 THEN b[p] = 0 ELSE IsAsciiText(b[p])
              THEN <<0>> \o b
            ELSE IF b[1] = 0 /\ \A p \in 2..n : IsAsciiText(b[p])
              THEN [p \in 1..(2 * (n - 1)) |->
                       IF p % 2 = 1 THEN 0 ELSE b[(p \div 2) + 1]]
            ELSE b
        decoded == IF r.string.kind = "str" THEN Ok(b) ELSE Utf16Decode(repaired)
    IN  IF ~decoded.ok THEN Failed
        ELSE LET t == decoded.v
             IN  IF \A p \in 1..Len(t) :
                       IF p % 2 = 1 THEN t[p] = 0 ELSE IsAsciiText(t[p])
                 THEN Ok([p \in 1..(Len(t) \div 2) |-> t[2 * p]])
                 ELSE Ok(t)

\* What lines 23-35 (and 41-53) do with one candidate record: take a value
\* and break, let toUnicode's exception leave the function, or fall through
\* the two except clauses and go on with the next record.
ReadName(r) ==
    IF isUnicode(r)
    THEN LET u == toUnicode(r)
         IN  IF u.ok THEN [outcome |-> "value", v |-> u.v]
             ELSE [outcome |-> "raise"]
    ELSE LET u8 == Utf8Decode(r.string.v)
             l1 == Latin1Decode(r.string.v)
         IN  IF u8.ok THEN [outcome |-> "value", v |-> u8.v]
             ELSE IF l1.ok THEN [outcome |-> "value", v |-> l1.v]
             ELSE [outcome |-> "skip"]

\* index of the first record of table with the identity of r, 0 if none
\* (the lookup of setName)
Find(table, r) ==
    IF \E k \in 1..Len(table) : Ident(table[k]) = Ident(r)
    THEN CHOOSE k \in 1..Len(table) :
            /\ Ident(table[k]) = Ident(r)
            /\ \A j \in 1..(k - 1) : Ident(table[j]) # Ident(r)
    ELSE 0

\* a setName that adds a record instead of replacing the string of the one found
setNameAppend(table, string, r) ==
    Append(table, Rec(r.nameID, r.platformID, r.platEncID, r.langID, string))

\* font['name'].setName(string, nameID, platformID, platEncID, langID) with
\* the IDs of r: the record with these IDs gets the string; without one, a
\* new record is appended
setName(table, string, r) ==
    IF Find(table, r) # 0
    THEN [table EXCEPT ![Find(table, r)].string = string]
    ELSE Append(table, Rec(r.nameID, r.platformID, r.platEncID, r.langID, string))

\* the nameIDs of line 69
NameIDs == <<1, 16>>

\* an update that skips every record that is not a Unicode one
UpdateOneUnicodeOnly(table, r, name) ==
    IF isUnicode(r) THEN setName(table, Str(name), r) ELSE table

\* an update that stores the text itself when it cannot be encoded
UpdateOneFallback(table, r, name) ==
    IF isUnicode(r) \/ ~Encode(name, getEncoding(r)).ok
    THEN setName(table, Str(name), r)
    ELSE setName(table, Bytes(Encode(name, getEncoding(r)).v), r)

\* lines 72-80 for one record with a nameID of the loop
UpdateOne(table, r, name) ==
    IF isUnicode(r) THEN setName(table, Str(name), r)
    ELSE IF Encode(name, getEncoding(r)).ok
      THEN setName(table, Bytes(Encode(name, getEncoding(r)).v), r)
    ELSE table

\* record.toBytes(), called for each record when the table is compiled
toBytes(r) ==
    IF r.string.kind = "bytes" THEN Ok(r.string.v)
    ELSE Encode(r.string.v, getEncoding(r))

\* NameRecord.__lt__ on records of different identities
RecLess(a, b) ==
    LET ka == <<a.platformID, a.platEncID, a.langID, a.nameID>>
        kb == <<b.platformID, b.platEncID, b.langID, b.nameID>>
    IN  \E p \in 1..4 : ka[p] < kb[p] /\ \A q \in 1..(p - 1) : ka[q] = kb[q]

\* names.sort() in the compilation of the table by font.save
SortRecords(table) ==
    [k \in 1..Len(table) |->
        CHOOSE r \in {table[j] : j \in 1..Len(table)} :
            Cardinality({j \in 1..Len(table) : RecLess(table[j], r)}) = k - 1]

\* the records font.save writes: each record with its string as bytes
Compiled(table) ==
    [k \in 1..Len(table) |->
        [table[k] EXCEPT !.string = Bytes(toBytes(table[k]).v)]]

\* str(family_name) inside the f-string of line 98: 'None' for None
Format(x) == IF x.some THEN x.v ELSE <<78, 111, 110, 101>>

---------------------------------------------------------------------------
(* The inputs: command lines and font files *)

\* 'in.ttf' and 'out.ttf'
InPath == <<105, 110, 46, 116, 116, 102>>

OutPath == <<111, 117, 116, 46, 116, 116, 102>>

\* the overrides tried: 'My Bold-Regular', U+4E2D U+6587 and ''
Overrides ==
    { <<77, 121, 32, 66, 111, 108, 100, 45, 82, 101, 103, 117, 108, 97, 114>>,
      <<20013, 25991>>,
      <<>> }

\* sys.argv[1:] with two or three arguments
RunArgvs == {<<InPath, OutPath>>} \cup {<<InPath, OutPath, o>> : o \in Overrides}

\* sys.argv[1:] with too few arguments
ShortArgvs == {<<>>, <<InPath>>}

\* strings of a record of the Windows Unicode platform (3, 1, 0x409):
\* 'Ab Bold' and U+4E2D in UTF-16BE, a lone high surrogate, and no bytes
WinStrings ==
    { <<0, 65, 0, 98, 0, 32, 0, 66, 0, 111, 0, 108, 0, 100>>,
      <<78, 45>>,
      <<216, 0>>,
      <<>> }

\* strings of a record of the Macintosh Roman platform (1, 0, 0):
\* 'Cd-Thin', the byte 0x8E (not UTF-8), the UTF-8 bytes of U+00E9
MacStrings ==
    { <<67, 100, 45, 84, 104, 105, 110>>,
      <<142>>,
      <<195, 169>> }

\* the records a font file of the model is made of: family (1) and preferred
\* family (16) records on both platforms, and a subfamily (2) record 'Bold'
RecordPool ==
    {Rec(id, 3, 1, 1033, Bytes(b)) : id \in {1, 16}, b \in WinStrings}
    \cup {Rec(id, 1, 0, 0, Bytes(b)) : id \in {1, 16}, b \in MacStrings}
    \cup {Rec(2, 3, 1, 1033, Bytes(<<0, 66, 0, 111, 0, 108, 0, 100>>))}

\* the naming tables of at most MaxRecords records, in any order, no two
\* records with the same identity
FontFiles ==
    UNION {
        {f \in [1..n -> RecordPool] :
            \A j, k \in 1..n : j # k => Ident(f[j]) # Ident(f[k])}
        : n \in 0..MaxRecords }

\* family_name_override of lines 94 and 4
Override == IF Len(argv) > 2 THEN Some(argv[3]) ELSE None

---------------------------------------------------------------------------
(* The program *)

Init ==
    /\ pc = "main"
    /\ \/ argv \in ShortArgvs /\ inFile = <<>>
       \/ argv \in RunArgvs /\ inFile \in FontFiles
    /\ names = <<>>
    /\ family_name = None
    /\ raw = None
    /\ i = 0
    /\ wi = 0
    /\ ni = 0
    /\ outFile = None
    /\ err = ""
    /\ stdout = None
    /\ exitCode = -1

\* lines 88-90: too few arguments
Usage ==
    /\ pc = "main"
    /\ Len(argv) < 2
    /\ stdout' = Some([line |-> "Usage", text |-> <<>>])
    /\ exitCode' = 1
    /\ pc' = "exit"
    /\ UNCHANGED <<argv, inFile, names, family_name, raw, i, wi, ni, outFile, err>>

\* lines 92-97 and 14: the call, and TTFont(input_path), which raises when
\* the path cannot be read as a font
Load ==
    /\ pc = "main"
    /\ Len(argv) >= 2
    /\ \/ names' = inFile /\ pc' = "resolve" /\ err' = err
       \/ names' = names /\ pc' = "raised" /\ err' = "LoadError"
    /\ UNCHANGED <<argv, inFile, family_name, raw, i, wi, ni, outFile, stdout,
                   exitCode>>

\* where control goes at line 68 with the family name fn
AtUpdate(fn) == IF Truthy(fn) THEN "update" ELSE "save"

\* where control goes at line 56 with the family name fn
AtCleanup(fn) == IF Truthy(fn) THEN "strip" ELSE AtUpdate(fn)

\* a line 38 that scans the nameID 1 records whatever the first loop found
AtFallbackAlways(fn) == "scan1"

\* where control goes at line 38, after the nameID 16 loop, with fn
AtFallback(fn) == IF ~Truthy(fn) THEN "scan1" ELSE AtCleanup(fn)

\* lines 17-19: no override, the scan starts
BeginScan ==
    /\ pc = "resolve"
    /\ ~Truthy(Override)
    /\ family_name' = None
    /\ i' = 1
    /\ pc' = "scan16"
    /\ UNCHANGED <<argv, inFile, names, raw, wi, ni, outFile, err, stdout, exitCode>>

\* an override put through the cleanup loop
OverrideNameCleaned(o) == Some(Clean(o))

\* the name line 65 assigns without stripping
OverrideName(o) == Some(o)

\* lines 63-65, then the test of line 68
UseOverride ==
    /\ pc = "resolve"
    /\ Truthy(Override)
    /\ family_name' = OverrideName(Override.v)
    /\ pc' = AtUpdate(family_name')
    /\ i' = 1
    /\ ni' = 1
    /\ UNCHANGED <<argv, inFile, names, raw, wi, outFile, err, stdout, exitCode>>

\* One iteration of a scan loop for nameID id (lines 20-35 for 16, 39-53 for
\* 1), or its end, from where control goes to line 38 or to line 56.
ScanStep(id, here) ==
    /\ pc = here
    /\ IF i > Len(names)
       THEN /\ pc' = IF id = 16 THEN AtFallback(family_name) ELSE AtCleanup(family_name)
            /\ i' = 1
            /\ raw' = family_name
            /\ UNCHANGED <<family_name, err>>
       ELSE IF names[i].nameID # id \/ ReadName(names[i]).outcome = "skip"
       THEN /\ i' = i + 1
            /\ UNCHANGED <<pc, family_name, raw, err>>
       ELSE IF ReadName(names[i]).outcome = "raise"
       THEN /\ pc' = "raised"
            /\ err' = "UnicodeDecodeError"
            /\ UNCHANGED <<family_name, raw, i>>
       ELSE /\ family_name' = Some(ReadName(names[i]).v)
            /\ pc' = IF id = 16 THEN AtFallback(family_name') ELSE AtCleanup(family_name')
            /\ i' = 1
            /\ raw' = family_name'
            /\ err' = err
    /\ wi' = 1
    /\ ni' = 1
    /\ UNCHANGED <<argv, inFile, names, outFile, stdout, exitCode>>

\* lines 20-35 and the test of line 38
ScanPreferred == ScanStep(16, "scan16")

\* lines 39-53 and the test of line 56
ScanFamily == ScanStep(1, "scan1")

\* lines 58-62: the cleanup loop's iteration for weight wi; after the last
\* one, the test of line 68
Cleanup ==
    /\ pc = "strip"
    /\ family_name' = Some(CleanOne(family_name.v, Weights[wi]))
    /\ IF wi < Len(Weights)
       THEN wi' = wi + 1 /\ pc' = pc
       ELSE wi' = wi /\ pc' = AtUpdate(family_name')
    /\ i' = 1
    /\ ni' = 1
    /\ UNCHANGED <<argv, inFile, names, raw, outFile, err, stdout, exitCode>>

\* lines 69-80: one iteration of the inner loop, or the step to the next
\* nameID, or the end of the outer loop
Update ==
    /\ pc = "update"
    /\ IF i > Len(names)
       THEN IF ni < Len(NameIDs)
            THEN ni' = ni + 1 /\ i' = 1 /\ UNCHANGED <<pc, names>>
            ELSE pc' = "save" /\ UNCHANGED <<ni, i, names>>
       ELSE /\ names' = IF names[i].nameID = NameIDs[ni]
                        THEN UpdateOne(names, names[i], family_name.v)
                        ELSE names
            /\ i' = i + 1
            /\ UNCHANGED <<pc, ni>>
    /\ UNCHANGED <<argv, inFile, family_name, raw, wi, outFile, err, stdout,
                   exitCode>>

\* line 83: font.save(output_path) sorts the records and turns each into
\* bytes; it raises when a string cannot be encoded or the file not written
Save ==
    /\ pc = "save"
    /\ names' = SortRecords(names)
    /\ \/ /\ \A k \in 1..Len(names) : toBytes(names[k]).ok
          /\ outFile' = Some(Compiled(names'))
          /\ pc' = "return"
          /\ err' = err
       \/ /\ outFile' = outFile
          /\ pc' = "raised"
          /\ err' = IF \A k \in 1..Len(names) : toBytes(names[k]).ok
                    THEN "SaveError" ELSE "UnicodeEncodeError"
    /\ UNCHANGED <<argv, inFile, family_name, raw, i, wi, ni, stdout, exitCode>>

\* lines 84 and 98: the name is returned and printed after 'SUCCESS:'
Report ==
    /\ pc = "return"
    /\ stdout' = Some([line |-> "SUCCESS", text |-> Format(family_name)])
    /\ exitCode' = 0
    /\ pc' = "exit"
    /\ UNCHANGED <<argv, inFile, names, family_name, raw, i, wi, ni, outFile, err>>

\* lines 99-101: any exception is printed after 'ERROR:' and the exit code is 1
ReportError ==
    /\ pc = "raised"
    /\ stdout' = Some([line |-> "ERROR", text |-> <<>>])
    /\ exitCode' = 1
    /\ pc' = "exit"
    /\ UNCHANGED <<argv, inFile, names, family_name, raw, i, wi, ni, outFile, err>>

Next ==
    \/ Usage
    \/ Load
    \/ BeginScan
    \/ UseOverride
    \/ ScanPreferred
    \/ ScanFamily
    \/ Cleanup
    \/ Update
    \/ Save
    \/ Report
    \/ ReportError

Spec == Init /\ [][Next]_vars

---------------------------------------------------------------------------
(* The cleanup loop on its own, entered (line 56) with any non-empty name *)

\* 'A', ' ', '-', 'Bold', 'Regular', 'Extra'
Pieces ==
    { <<65>>, <<32>>, <<45>>, <<66, 111, 108, 100>>,
      <<82, 101, 103, 117, 108, 97, 114>>, <<69, 120, 116, 114, 97>> }

RECURSIVE Joined(_)
\* the names made of exactly n pieces
Joined(n) ==
    IF n = 0 THEN {<<>>}
    ELSE {a \o b : a \in Joined(n - 1), b \in Pieces}

\* ' Aria Sans Bold', 'ArialBold' and 'Aria-ExtraBold'
AriaSansBold == <<32, 65, 114, 105, 97, 32, 83, 97, 110, 115, 32, 66, 111, 108, 100>>

ArialBold == <<65, 114, 105, 97, 108, 66, 111, 108, 100>>

AriaExtraBold == <<65, 114, 105, 97, 45, 69, 120, 116, 114, 97, 66, 111, 108, 100>>

\* the names the cleanup loop is tried on
TrialNames ==
    UNION {Joined(n) : n \in 1..MaxPieces}
    \cup {AriaSansBold, ArialBold, AriaExtraBold}

StripInit ==
    /\ pc = "strip"
    /\ argv = <<InPath, OutPath>>
    /\ inFile = <<>>
    /\ names = <<>>
    /\ raw \in {Some(n) : n \in TrialNames}
    /\ family_name = raw
    /\ i = 1
    /\ wi = 1
    /\ ni = 1
    /\ outFile = None
    /\ err = ""
    /\ stdout = None
    /\ exitCode = -1

StripNext == Cleanup

StripSpec == StripInit /\ [][StripNext]_vars

\* the cleanup loop has run to its end
Cleaned == pc \in {"update", "save"} /\ raw.some /\ family_name.some

---------------------------------------------------------------------------
(* Claims about the cleanup loop *)

\* the positions of s inside an occurrence of old
Covered(s, old) ==
    {p \in 1..Len(s) : \E q \in 1..p : q + Len(old) > p /\ OccursAt(old, s, q)}

\* s without every occurrence of old
Without(s, old) ==
    LET keep == (1..Len(s)) \ Covered(s, old)
    IN  [k \in 1..Cardinality(keep) |->
            s[CHOOSE p \in keep : Cardinality({q \in keep : q < p}) = k - 1]]

\* t is s without its leading and trailing whitespace
IsTrimOf(t, s) ==
    /\ t # <<>> => ~IsSpace(t[1]) /\ ~IsSpace(t[Len(t)])
    /\ \E a \in 0..Len(s) :
          /\ a + Len(t) <= Len(s)
          /\ t = SubSeq(s, a + 1, a + Len(t))
          /\ \A p \in (1..a) \cup ((a + Len(t) + 1)..Len(s)) : IsSpace(s[p])

\* s without its leading and trailing whitespace
Trimmed(s) ==
    CHOOSE t \in {SubSeq(s, a, b) : a \in 1..(Len(s) + 1), b \in 0..Len(s)} :
        IsTrimOf(t, s)

\* C4 as stated, for one weight: every occurrence of the weight after a space
\* or a hyphen is removed, then the name is trimmed
StepAlways(s, w) == Trimmed(Without(Without(s, Space \o w), Hyphen \o w))

\* C4 as amended, for one weight: the same, for a name the weight occurs in
StepIfOccurs(s, w) ==
    IF \E p \in 1..Len(s) : OccursAt(w, s, p) THEN StepAlways(s, w) ELSE s

RECURSIVE ChainAlways(_, _)
\* the weights from k on, in the list's order, each as C4 states it
ChainAlways(s, k) ==
    IF k > Len(Weights) THEN s ELSE ChainAlways(StepAlways(s, Weights[k]), k + 1)

RECURSIVE ChainIfOccurs(_, _)
\* the weights from k on, in the list's order, each as C4 is amended
ChainIfOccurs(s, k) ==
    IF k > Len(Weights) THEN s
    ELSE ChainIfOccurs(StepIfOccurs(s, Weights[k]), k + 1)

\* the three names of C4 and what they are cleaned to
Examples ==
    { <<AriaSansBold, <<65, 114, 105, 97, 32, 83, 97, 110, 115>> >>,
      <<ArialBold, ArialBold>>,
      <<AriaExtraBold, <<65, 114, 105, 97>> >> }

\* C4 as stated: the cleanup loop removes, for each weight of the list in its
\* order, every occurrence of the weight preceded by a space or a hyphen and
\* then trims the name, and the three example names give the stated results.
C4_Original ==
    Cleaned =>
        /\ family_name.v = ChainAlways(raw.v, 1)
        /\ \A e \in Examples : raw.v = e[1] => family_name.v = e[2]

\* C4 amended: for each weight of the list in its order that occurs in the
\* name (with or without a separator before it), the cleanup loop removes
\* every occurrence of the weight preceded by a space or a hyphen and then
\* trims the name; a weight that does not occur leaves the name as it is,
\* surrounding whitespace included; the three example names give the stated
\* results.
C4_Cleanup ==
    Cleaned =>
        /\ family_name.v = ChainIfOccurs(raw.v, 1)
        /\ \A e \in Examples : raw.v = e[1] => family_name.v = e[2]

\* the loop has cleaned ' Aria Sans Bold' to 'Aria Sans'
C4_Witness ==
    /\ Cleaned
    /\ raw.v = AriaSansBold
    /\ family_name.v = <<65, 114, 105, 97, 32, 83, 97, 110, 115>>

\* a space or a hyphen immediately followed by a listed weight occurs in s
HasSeparatedWeight(s) ==
    \E k \in 1..Len(Weights), p \in 1..Len(s) :
        OccursAt(Space \o Weights[k], s, p) \/ OccursAt(Hyphen \o Weights[k], s, p)

\* C10 as stated: the cleaned name contains no space or hyphen immediately
\* followed by a listed weight, and cleaning it again gives the same name.
C10_Original ==
    Cleaned =>
        /\ ~HasSeparatedWeight(family_name.v)
        /\ Clean(family_name.v) = family_name.v

\* C10 amended: a cleaned name that contains no space or hyphen immediately
\* followed by a listed weight is cleaned to itself; a cleaned name can still
\* contain one (removing a weight can join the text around it into a new
\* one), and only then does a second cleaning change it.
C10_Idempotent ==
    Cleaned =>
        (Clean(family_name.v) # family_name.v <=> HasSeparatedWeight(family_name.v))

\* a name with a weight was cleaned, nothing separated is left, and a second
\* cleaning changes nothing
C10_Witness ==
    /\ Cleaned
    /\ family_name.v # raw.v
    /\ \E k \in 1..Len(Weights) : Contains(Weights[k], family_name.v)
    /\ ~HasSeparatedWeight(family_name.v)
    /\ Clean(family_name.v) = family_name.v

---------------------------------------------------------------------------
(* Claims about a run *)

FamilyIDs == {1, 16}

\* the run has no override, or an empty one, and scans for the name
NoOverride == Len(argv) >= 2 /\ ~Truthy(Override)

\* the record of table with the identity of r
Same(table, r) == table[CHOOSE k \in 1..Len(table) : Ident(table[k]) = Ident(r)]

\* fix_font_family_names has saved the font and returns
Returned == pc \in {"return", "exit"} /\ outFile.some

\* the update loop has run to its end with the name family_name
Updated == pc \in {"save", "return", "raised", "exit"} /\ Truthy(family_name)

\* the scan of a run without override has resolved a name, or none
Scanned == /\ NoOverride
           /\ pc \in {"strip", "update", "save", "return", "raised", "exit"}
           /\ err \in {"", "SaveError"}

\* the bytes of name in the encoding of record r, if it has any there
InEncodingOf(name, r) == Encode(name, getEncoding(r))

\* indexes of the records of table with nameID id
WithID(table, id) == {k \in 1..Len(table) : table[k].nameID = id}

\* the first record of table with nameID id
First(table, id) ==
    table[CHOOSE k \in WithID(table, id) : \A j \in WithID(table, id) : k <= j]

\* C1 as stated: after a run that completes without raising, every record with
\* nameID 1 or 16 holds the family name the run returns, in that record's own
\* encoding.
C1_Original ==
    Returned =>
        \A k \in 1..Len(outFile.v) :
            outFile.v[k].nameID \in FamilyIDs =>
                /\ family_name.some
                /\ InEncodingOf(family_name.v, outFile.v[k]).ok
                /\ outFile.v[k].string.v = InEncodingOf(family_name.v, outFile.v[k]).v

\* C1 amended: after a run that completes without raising and returns a
\* non-empty family name, every record with nameID 1 or 16 whose encoding can
\* represent that name holds it, in that record's own encoding: as text in the
\* loaded table when the record is a Unicode one, as bytes in the saved file.
C1_SameFamilyName ==
    Returned /\ Truthy(family_name) =>
        \A k \in 1..Len(outFile.v) :
            LET r == outFile.v[k]
            IN  r.nameID \in FamilyIDs /\ InEncodingOf(family_name.v, r).ok =>
                  /\ r.string.v = InEncodingOf(family_name.v, r).v
                  /\ isUnicode(r) => Same(names, r).string = Str(family_name.v)

\* a run without override has returned a name and a Unicode and a Macintosh
\* record that held other values now both hold it
C1_Witness ==
    /\ Returned
    /\ NoOverride
    /\ Truthy(family_name)
    /\ \E j, k \in 1..Len(outFile.v) :
          /\ outFile.v[j].nameID = 16 /\ isUnicode(outFile.v[j])
          /\ outFile.v[k].nameID = 1 /\ ~isUnicode(outFile.v[k])
          /\ Same(inFile, outFile.v[j]).string # outFile.v[j].string
          /\ Same(inFile, outFile.v[k]).string # outFile.v[k].string
          /\ Utf16Encode(family_name.v).ok /\ MacRomanEncode(family_name.v).ok
          /\ outFile.v[j].string.v = Utf16Encode(family_name.v).v
          /\ outFile.v[k].string.v = MacRomanEncode(family_name.v).v

\* C2 as stated: without override, when the font has a nameID 16 record that
\* decodes, the scan resolves the value of the first nameID 16 record and the
\* nameID 1 records are ignored; the value of the first nameID 1 record is
\* used only when no nameID 16 record yields a value.
C2_Original ==
    Scanned =>
        IF \E k \in WithID(inFile, 16) : ReadName(inFile[k]).outcome = "value"
        THEN raw = Some(ReadName(First(inFile, 16)).v)
        ELSE IF WithID(inFile, 1) # {}
        THEN raw = Some(ReadName(First(inFile, 1)).v)
        ELSE raw = None

\* C2 amended: without override, when the first nameID 16 record decodes to a
\* non-empty value, the scan resolves that value and the nameID 1 records are
\* ignored; otherwise (no nameID 16 record, or the first one decodes to the
\* empty string, later nameID 16 records not being looked at) it resolves the
\* value of the first nameID 1 record; with no nameID 1 record either it
\* resolves the empty string of the nameID 16 record, or nothing.
C2_PreferredFirst ==
    Scanned =>
        IF WithID(inFile, 16) # {} /\ ReadName(First(inFile, 16)).v # <<>>
        THEN raw = Some(ReadName(First(inFile, 16)).v)
        ELSE IF WithID(inFile, 1) # {}
        THEN raw = Some(ReadName(First(inFile, 1)).v)
        ELSE IF WithID(inFile, 16) # {}
        THEN raw = Some(<<>>)
        ELSE raw = None

\* the scan took the first of two nameID 16 records, which differs from the
\* second, with a nameID 1 record before both
C2_Witness ==
    /\ Scanned
    /\ Len(inFile) = 3
    /\ inFile[1].nameID = 1 /\ inFile[2].nameID = 16 /\ inFile[3].nameID = 16
    /\ \A k \in 1..3 : ReadName(inFile[k]).outcome = "value"
    /\ ReadName(inFile[1]).v # <<>>
    /\ ReadName(inFile[2]).v # ReadName(inFile[3]).v
    /\ ReadName(inFile[1]).v # ReadName(inFile[2]).v
    /\ raw = Some(ReadName(inFile[2]).v)

\* C3: with a non-empty override the run returns the override itself, not
\* stripped of any weight, and every Unicode record with nameID 1 or 16 is set
\* to exactly the override whatever it held.
C3_OverrideVerbatim ==
    Returned /\ Len(argv) = 3 /\ argv[3] # <<>> =>
        /\ family_name = Some(argv[3])
        /\ \A k \in 1..Len(names) :
              names[k].nameID \in FamilyIDs /\ isUnicode(names[k]) =>
                  /\ names[k].string = Str(argv[3])
                  /\ Same(outFile.v, names[k]).string = Bytes(Utf16Encode(argv[3]).v)

\* a run with the override 'My Bold-Regular' has returned and a Unicode
\* nameID 16 record whose bytes did not decode now holds the override
C3_Witness ==
    /\ Returned
    /\ Len(argv) = 3
    /\ Contains(Space \o Weights[2], argv[3])
    /\ Contains(Hyphen \o Weights[1], argv[3])
    /\ family_name = Some(argv[3])
    /\ \E k \in 1..Len(names) :
          /\ names[k].nameID = 16 /\ isUnicode(names[k])
          /\ ~toUnicode(Same(inFile, names[k])).ok
          /\ names[k].string = Str(argv[3])

\* the name cannot be encoded into the encoding of the non-Unicode record r
CannotHold(r, name) == ~isUnicode(r) /\ ~InEncodingOf(name, r).ok

\* what the update loop leaves in record r of the input for the name
Expected(r, name) ==
    IF isUnicode(r) THEN Str(name)
    ELSE IF InEncodingOf(name, r).ok THEN Bytes(InEncodingOf(name, r).v)
    ELSE r.string

\* C5: when the family name cannot be encoded into the encoding of a
\* non-Unicode record with nameID 1 or 16, that record is left as it was,
\* every other record with nameID 1 or 16 is updated to the name, before or
\* after it in record order, and the run goes on to save and to return the
\* name: the only exception after the update loop is the save's.
C5_EncodingFailureSkipped ==
    Updated =>
        /\ \A k \in 1..Len(inFile) :
              inFile[k].nameID \in FamilyIDs =>
                  /\ Same(names, inFile[k]).string = Expected(inFile[k], family_name.v)
                  /\ CannotHold(inFile[k], family_name.v) =>
                        Same(names, inFile[k]).string = inFile[k].string
        /\ pc = "raised" => err \in {"SaveError", "UnicodeEncodeError"}
        /\ pc = "exit" /\ err = "" =>
              /\ exitCode = 0
              /\ stdout = Some([line |-> "SUCCESS", text |-> family_name.v])

\* a run has returned the name although the second of three records with
\* nameID 1 or 16 could not hold it: that record is as loaded, the records
\* before and after it hold the name
C5_Witness ==
    /\ Returned
    /\ pc = "exit"
    /\ Truthy(family_name)
    /\ Len(inFile) = 3
    /\ \A k \in 1..3 : inFile[k].nameID \in FamilyIDs
    /\ isUnicode(inFile[1]) /\ isUnicode(inFile[3])
    /\ CannotHold(inFile[2], family_name.v)
    /\ Same(names, inFile[2]).string = inFile[2].string
    /\ Same(names, inFile[1]).string = Str(family_name.v)
    /\ Same(names, inFile[3]).string = Str(family_name.v)
    /\ inFile[1].string.v # Utf16Encode(family_name.v).v
    /\ inFile[3].string.v # Utf16Encode(family_name.v).v
    /\ exitCode = 0

\* no record with nameID 1 or 16 of the input yields a decoded value
NothingDecodable ==
    \A k \in 1..Len(inFile) :
        inFile[k].nameID \in FamilyIDs => ReadName(inFile[k]).outcome # "value"

\* C6 as stated: without override, when no record with nameID 16 or 1 yields
\* a decodable value, the resolved name is absent, no record is modified, and
\* the run goes on to save the font and returns absent.
C6_Claim ==
    NoOverride /\ NothingDecodable =>
        /\ pc = "raised" => err \in {"LoadError", "SaveError"}
        /\ pc \in {"save", "return", "exit"} /\ err = "" =>
              family_name = None /\ names = inFile
        /\ Returned => outFile.v = Compiled(SortRecords(inFile))

\* C7 as stated: a successful run exits with code 0 and prints 'SUCCESS:'
\* followed by the resolved family name, or by nothing when none was resolved.
C7_Claim ==
    pc = "exit" /\ outFile.some =>
        /\ exitCode = 0
        /\ stdout = Some([line |-> "SUCCESS",
                          text |-> IF Truthy(family_name) THEN family_name.v
                                   ELSE <<>>])

\* C8 as stated: a decode failure on a naming record during name resolution,
\* a Unicode record's included, never aborts the run; only a load or a save
\* failure makes it raise.
C8_Claim ==
    pc = "raised" => err \in {"LoadError", "SaveError", "UnicodeEncodeError"}

\* the table has been loaded
Loaded == pc # "main" /\ err # "LoadError" /\ Len(argv) >= 2

\* C9: every record whose nameID is neither 1 nor 16 has, during and after the
\* update loop, the value it was loaded with, and the loop neither adds nor
\* removes a record: the identities of the table are those of the input.
C9_OtherRecordsUntouched ==
    Loaded =>
        /\ Len(names) = Len(inFile)
        /\ {Ident(names[k]) : k \in 1..Len(names)}
              = {Ident(inFile[k]) : k \in 1..Len(inFile)}
        /\ \A k \in 1..Len(names) :
              names[k].nameID \notin FamilyIDs =>
                  names[k].string = Same(inFile, names[k]).string
        /\ outFile.some =>
              \A k \in 1..Len(outFile.v) :
                  outFile.v[k].nameID \notin FamilyIDs =>
                      outFile.v[k] = Same(inFile, outFile.v[k])

\* the update loop has ended, it changed a nameID 1 and a nameID 16 record,
\* and the subfamily record between them is as loaded
C9_Witness ==
    /\ pc = "save"
    /\ Truthy(family_name)
    /\ Len(inFile) = 3
    /\ inFile[1].nameID = 16 /\ inFile[2].nameID = 2 /\ inFile[3].nameID = 1
    /\ names[1].string # inFile[1].string
    /\ names[3].string # inFile[3].string
    /\ names[2] = inFile[2]

===========================================================================
